---- MODULE Spec2Model ----
(***************************************************************************)
(* ATS Resume Score Checker (src/ATSscorechecker.py).                      *)
(*                                                                         *)
(* The Streamlit script is re-executed top to bottom on every interaction. *)
(* One script run is modelled step by step (pc), from the widget values    *)
(* of the run to the messages it renders.  The concurrent first access to  *)
(* the cached model by several sessions is modelled by SpecLoad.           *)
(*                                                                         *)
(* Texts are Python strings in run-length form: a sequence of runs         *)
(* [ch, n] (n copies of character ch) in which adjacent runs have          *)
(* different characters, so that equal strings have equal representations  *)
(* and MAX_CHARS keeps its value of 2000.                                  *)
(* Scores are in hundredths of a percent point (7500 is 75.00), cosine     *)
(* similarities in units of 10^-7 (10000000 is 1.0).                       *)
(***************************************************************************)
EXTENDS Integers, Sequences, FiniteSets, TLC

\* ---------------------------------------------------------------- bounds --
MaxRuns == 2          \* runs of equal characters in a pasted text
MaxParts == 2         \* pages (PDF) or paragraphs (DOCX) of an uploaded file
NumWeights == 3       \* embedding functions a constructed model may have
NumSessions == 2      \* concurrent browser sessions (SpecLoad)
MaxScriptRuns == 2    \* script runs of one session (SpecLoad)

\* ------------------------------------------------------ program constants --
MAX_CHARS == 2000

\* --------------------------------------------------------------- strings --
Whitespace == {" ", "\n"}
InputChars == {"a", " "}
RunLens == {1, MAX_CHARS}

Empty == << >>

Run(c, k) == [ch |-> c, n |-> k]

Canonical(t) == \A i \in 1..(Len(t) - 1) : t[i].ch # t[i + 1].ch

RECURSIVE TextLen(_)
TextLen(t) == IF t = Empty THEN 0 ELSE t[1].n + TextLen(Tail(t))

\* s + t
Concat(s, t) ==
    IF s = Empty THEN t
    ELSE IF t = Empty THEN s
    ELSE IF s[Len(s)].ch = t[1].ch
         THEN SubSeq(s, 1, Len(s) - 1)
              \o << Run(t[1].ch, s[Len(s)].n + t[1].n) >>
              \o Tail(t)
         ELSE s \o t

\* t[:k]
RECURSIVE Prefix(_, _)
Prefix(t, k) ==
    IF t = Empty \/ k <= 0 THEN Empty
    ELSE IF t[1].n >= k THEN << Run(t[1].ch, k) >>
    ELSE << t[1] >> \o Prefix(Tail(t), k - t[1].n)

RECURSIVE LStrip(_)
LStrip(t) ==
    IF t = Empty THEN Empty
    ELSE IF t[1].ch \in Whitespace THEN LStrip(Tail(t))
    ELSE t

RECURSIVE RStrip(_)
RStrip(t) ==
    IF t = Empty THEN Empty
    ELSE IF t[Len(t)].ch \in Whitespace THEN RStrip(SubSeq(t, 1, Len(t) - 1))
    ELSE t

\* t.strip()
Strip(t) == RStrip(LStrip(t))

\* truth value of a Python string
Truthy(t) == t # Empty

Texts ==
    { t \in UNION { [1..k -> { Run(c, n) : c \in InputChars, n \in RunLens }]
                    : k \in 0..MaxRuns } : Canonical(t) }

\* texts of one page or paragraph
PartTexts ==
    { Empty, << Run("a", 1) >>, << Run(" ", 1) >>,
      << Run("a", MAX_CHARS) >>, << Run(" ", MAX_CHARS) >> }

Documents == UNION { [1..k -> PartTexts] : k \in 0..MaxParts }


\* ------------------------------------------------------ embedding provider --
\* A SentenceTransformer instance is a deterministic function from text to
\* embedding, fixed by its weights.  Embeddings are drawn from a codebook of
\* NumVectors directions; encode may also raise (EncodeError) or return a
\* tensor pytorch_cos_sim cannot multiply (BadTensor).
NoModel == [id |-> 0, weights |-> 0]
Weights == 1..NumWeights

CosTable ==
    << 10000000, 7500000, 7499400, 5000000, 4999400, 1234567, -500000, -10000000 >>

NumVectors == Len(CosTable)
Vectors == 0..(NumVectors - 1)
Tensor(v) == [kind |-> "tensor", vec |-> v]
EncodeError == [kind |-> "raised", vec |-> 0]
BadTensor == [kind |-> "malformed", vec |-> 0]

CharCode(c) == IF c = "a" THEN 3 ELSE IF c = " " THEN 1 ELSE 2

RECURSIVE TextCode(_)
TextCode(t) ==
    IF t = Empty THEN 0
    ELSE (Len(t) * CharCode(t[1].ch) + 5 * (t[1].n % 7) + TextCode(Tail(t)))

\* model.encode(text, convert_to_tensor=True)
Encode(m, text) ==
    LET h == (TextCode(text) * m.weights + m.weights) % (NumVectors + 2)
    IN  IF h = NumVectors THEN EncodeError
        ELSE IF h = NumVectors + 1 THEN BadTensor
        ELSE Tensor(h)

Abs(x) == IF x < 0 THEN -x ELSE x

\* util.pytorch_cos_sim(a, b).item(): 1 up to float32 rounding for equal
\* vectors, otherwise the cosine of the angle of the two directions
CosSim(a, b) ==
    IF a.vec = b.vec THEN CosTable[1] + ((a.vec % 3) - 1)
    ELSE CosTable[Abs(a.vec - b.vec) + 1]

\* faulty variant: the digits after the second decimal are cut off
Round2_floor(x) ==
    LET m == Abs(x) \div 100000
    IN  IF x < 0 THEN -m ELSE m

\* round(x, 2) of x given in units of 10^-7, half to even, in hundredths
Round2(x) ==
    LET a  == Abs(x)
        q  == a \div 100000
        r  == a % 100000
        up == (2 * r > 100000) \/ (2 * r = 100000 /\ q % 2 = 1)
        m  == IF up THEN q + 1 ELSE q
    IN  IF x < 0 THEN -m ELSE m

\* faulty variant: the boundaries belong to the lower tier
Tier_strict(s) ==
    IF s > 7500 THEN "Strong"
    ELSE IF s > 5000 THEN "Average"
    ELSE "Weak"

\* the feedback messages block
Tier(s) ==
    IF s >= 7500 THEN "Strong"
    ELSE IF s >= 5000 THEN "Average"
    ELSE "Weak"

\* ------------------------------------------------------------ extraction --
RECURSIVE PdfText(_)
PdfText(pages) ==
    IF pages = << >> THEN Empty
    ELSE Concat(pages[1], PdfText(Tail(pages)))

\* the paragraph texts with one newline between consecutive paragraphs
RECURSIVE JoinNL(_)
JoinNL(paras) ==
    IF paras = << >> THEN Empty
    ELSE IF Len(paras) = 1 THEN paras[1]
    ELSE Concat(Concat(paras[1], << Run("\n", 1) >>), JoinNL(Tail(paras)))

\* faulty variant: newlines between the paragraphs only
DocxText_separated(paras) == JoinNL(paras)

RECURSIVE DocxText(_)
DocxText(paras) ==
    IF paras = << >> THEN Empty
    ELSE Concat(Concat(paras[1], << Run("\n", 1) >>), DocxText(Tail(paras)))

NoFile == [name |-> "", parses |-> FALSE, parts |-> << >>]

Lower(name) == IF name = "PDF" THEN "pdf" ELSE name

Returned(text) == [stop |-> FALSE, error |-> "", text |-> text]
Stopped(msg) == [stop |-> TRUE, error |-> msg, text |-> Empty]

extract_text_from_pdf(f) ==
    IF ~f.parses THEN Stopped("Error reading PDF")
    ELSE IF ~Truthy(Strip(PdfText(f.parts)))
         THEN Stopped("Could not extract text from the uploaded PDF")
         ELSE Returned(PdfText(f.parts))

extract_text_from_docx(f) ==
    IF ~f.parses THEN Stopped("Error reading DOCX")
    ELSE IF ~Truthy(Strip(DocxText(f.parts)))
         THEN Stopped("Could not extract text from the uploaded DOCX")
         ELSE Returned(DocxText(f.parts))

\* files the uploader can hand to the script; the content of a file that is
\* never parsed successfully is not represented
Files ==
    { [name |-> e, parses |-> TRUE, parts |-> d] :
          e \in {"pdf", "PDF", "docx"}, d \in Documents }
    \cup { [name |-> e, parses |-> FALSE, parts |-> << >>] :
          e \in {"pdf", "docx"} }
    \cup { [name |-> "txt", parses |-> TRUE, parts |-> << >>] }


\* --------------------------------------------------------------- scoring --
\* faulty variant: a failed encode of the resume is tried once more
calculate_ats_score_retry(m, resume, job) ==
    LET e1 == Encode(m, resume)
        e2 == Encode(m, job)
    IN  IF e1 = EncodeError
        THEN [score |-> 0, error |-> TRUE, encoded |-> << resume, resume >>]
        ELSE IF e2 = EncodeError \/ e1 = BadTensor \/ e2 = BadTensor
        THEN [score |-> 0, error |-> TRUE, encoded |-> << resume, job >>]
        ELSE [score |-> Round2(CosSim(e1, e2) * 100), error |-> FALSE,
              encoded |-> << resume, job >>]

\* calculate_ats_score: the value returned, whether st.error was called, and
\* the texts handed to model.encode, in call order
calculate_ats_score(m, resume, job) ==
    LET e1 == Encode(m, resume)
        e2 == Encode(m, job)
    IN  IF e1 = EncodeError
        THEN [score |-> 0, error |-> TRUE, encoded |-> << resume >>]
        ELSE IF e2 = EncodeError \/ e1 = BadTensor \/ e2 = BadTensor
        THEN [score |-> 0, error |-> TRUE, encoded |-> << resume, job >>]
        ELSE [score |-> Round2(CosSim(e1, e2) * 100), error |-> FALSE,
              encoded |-> << resume, job >>]

\* ----------------------------------------------------------------- state --
VARIABLES
    pc,               \* position of the script run
    upload_option,    \* sidebar radio
    uploaded_resume,  \* file_uploader value (NoFile when none is chosen)
    pasted_resume,    \* resume text_area value
    pasted_job,       \* job description text_area value
    button,           \* TRUE when this run was triggered by the Check button
    model,            \* handle returned by load_model() in this run
    resume_text,
    job_desc,
    score,            \* bound by calculate_ats_score's return (0 stands for
                      \* the unbound name before that; it is never read)
    ui,               \* elements rendered by this run, in order
    encoded,          \* texts handed to model.encode in this run
    calls,            \* argument pairs of the calls of calculate_ats_score
    cache,            \* st.cache_resource entry of load_model (process wide)
    constructed,      \* number of SentenceTransformer(...) instantiations
    spc,              \* SpecLoad: position of each session
    lock,             \* SpecLoad: holder of the cache's compute lock, 0 if free
    handle,           \* SpecLoad: model handle of each session
    runs              \* SpecLoad: script runs started by each session

inputs == << upload_option, uploaded_resume, pasted_resume, pasted_job, button >>
locals == << model, resume_text, job_desc, score, ui, encoded, calls >>
shared == << cache, constructed >>
sessions == << spc, lock, handle, runs >>
vars == << pc, inputs, locals, shared, sessions >>

Sessions == 1..NumSessions

Show(msg) == ui' = Append(ui, msg)
Footer == "footer"

Init ==
    /\ pc = "idle"
    /\ upload_option = "Upload PDF/DOCX"
    /\ uploaded_resume = NoFile
    /\ pasted_resume = Empty
    /\ pasted_job = Empty
    /\ button = FALSE
    /\ model = NoModel
    /\ resume_text = Empty
    /\ job_desc = Empty
    /\ score = 0
    /\ ui = << >>
    /\ encoded = << >>
    /\ calls = << >>
    /\ cache = NoModel
    /\ constructed = 0
    /\ spc = [s \in Sessions |-> "idle"]
    /\ lock = 0
    /\ handle = [s \in Sessions |-> NoModel]
    /\ runs = [s \in Sessions |-> 0]

\* A user interaction starts a run of the script with the widget values of
\* that moment.
StartRun ==
    /\ pc = "idle"
    /\ \E opt \in {"Upload PDF/DOCX", "Paste Text"}, job \in Texts, b \in BOOLEAN :
          /\ upload_option' = opt
          /\ pasted_job' = job
          /\ button' = b
          /\ IF opt = "Paste Text"
             THEN /\ uploaded_resume' = NoFile
                  /\ pasted_resume' \in Texts
             ELSE /\ uploaded_resume' \in Files \cup {NoFile}
                  /\ pasted_resume' = Empty
    /\ pc' = "load_model"
    /\ UNCHANGED << locals, shared, sessions >>

\* model = load_model(), memoized by st.cache_resource
LoadModel ==
    /\ pc = "load_model"
    /\ IF cache = NoModel
       THEN /\ \E w \in Weights :
                  cache' = [id |-> constructed + 1, weights |-> w]
            /\ constructed' = constructed + 1
       ELSE UNCHANGED shared
    /\ model' = cache'
    /\ pc' = "resume"
    /\ UNCHANGED << inputs, resume_text, job_desc, score, ui, encoded, calls, sessions >>

PasteResume ==
    /\ pc = "resume"
    /\ upload_option # "Upload PDF/DOCX"
    /\ resume_text' = pasted_resume
    /\ pc' = "job"
    /\ UNCHANGED << inputs, model, job_desc, score, ui, encoded, calls, shared, sessions >>

NoUpload ==
    /\ pc = "resume"
    /\ upload_option = "Upload PDF/DOCX"
    /\ uploaded_resume = NoFile
    /\ pc' = "job"
    /\ UNCHANGED << inputs, locals, shared, sessions >>

\* faulty variant: the error is shown but the run is not stopped
AfterExtract_continue(r) ==
    /\ IF r.stop THEN Show(r.error) ELSE UNCHANGED ui
    /\ resume_text' = r.text
    /\ pc' = "job"

\* the tail of the upload branch: a stopped run renders the error and ends,
\* a returned text is stored and announced when it is not blank
AfterExtract(r) ==
    IF r.stop
    THEN /\ Show(r.error)
         /\ pc' = "stopped"
         /\ UNCHANGED resume_text
    ELSE /\ resume_text' = r.text
         /\ IF Truthy(Strip(r.text))
            THEN Show("Resume text extracted successfully")
            ELSE UNCHANGED ui
         /\ pc' = "job"

UploadPdf ==
    /\ pc = "resume"
    /\ upload_option = "Upload PDF/DOCX"
    /\ uploaded_resume # NoFile
    /\ Lower(uploaded_resume.name) = "pdf"
    /\ AfterExtract(extract_text_from_pdf(uploaded_resume))
    /\ UNCHANGED << inputs, model, job_desc, score, encoded, calls, shared, sessions >>

UploadDocx ==
    /\ pc = "resume"
    /\ upload_option = "Upload PDF/DOCX"
    /\ uploaded_resume # NoFile
    /\ Lower(uploaded_resume.name) # "pdf"
    /\ Lower(uploaded_resume.name) = "docx"
    /\ AfterExtract(extract_text_from_docx(uploaded_resume))
    /\ UNCHANGED << inputs, model, job_desc, score, encoded, calls, shared, sessions >>

UploadUnsupported ==
    /\ pc = "resume"
    /\ upload_option = "Upload PDF/DOCX"
    /\ uploaded_resume # NoFile
    /\ Lower(uploaded_resume.name) \notin {"pdf", "docx"}
    /\ Show("Unsupported file type")
    /\ pc' = "job"
    /\ UNCHANGED << inputs, model, resume_text, job_desc, score, encoded,
                    calls, shared, sessions >>

\* faulty variant: the job description is not cut
Truncate_resume_only ==
    /\ pc = "job"
    /\ resume_text' = Prefix(resume_text, MAX_CHARS)
    /\ job_desc' = pasted_job
    /\ pc' = "button"
    /\ UNCHANGED << inputs, model, score, ui, encoded, calls, shared, sessions >>

\* job_desc = st.text_area(...); both texts cut to MAX_CHARS
Truncate ==
    /\ pc = "job"
    /\ resume_text' = Prefix(resume_text, MAX_CHARS)
    /\ job_desc' = Prefix(pasted_job, MAX_CHARS)
    /\ pc' = "button"
    /\ UNCHANGED << inputs, model, score, ui, encoded, calls, shared, sessions >>

ButtonNotPressed ==
    /\ pc = "button"
    /\ ~button
    /\ Show(Footer)
    /\ pc' = "done"
    /\ UNCHANGED << inputs, model, resume_text, job_desc, score, encoded,
                    calls, shared, sessions >>

\* faulty variant: one text is enough
Valid_or == Truthy(Strip(resume_text)) \/ Truthy(Strip(job_desc))

\* faulty variant: the texts are tested without strip()
Valid_untrimmed == Truthy(resume_text) /\ Truthy(job_desc)

\* if resume_text.strip() and job_desc.strip()
Valid == Truthy(Strip(resume_text)) /\ Truthy(Strip(job_desc))

ButtonBlank ==
    /\ pc = "button"
    /\ button
    /\ ~Valid
    /\ ui' = ui \o << "Please provide both", Footer >>
    /\ pc' = "done"
    /\ UNCHANGED << inputs, model, resume_text, job_desc, score, encoded,
                    calls, shared, sessions >>

Calculate ==
    /\ pc = "button"
    /\ button
    /\ Valid
    /\ LET r == calculate_ats_score(model, resume_text, job_desc)
       IN  /\ score' = r.score
           /\ encoded' = encoded \o r.encoded
           /\ calls' = Append(calls, << resume_text, job_desc >>)
           /\ IF r.error
              THEN Show("Error calculating ATS score")
              ELSE UNCHANGED ui
    /\ pc' = "render"
    /\ UNCHANGED << inputs, model, resume_text, job_desc, shared, sessions >>

\* subheader with the score, the feedback message, the caption, the footer
Render ==
    /\ pc = "render"
    /\ ui' = ui \o << "Score", Tier(score), "Note", Footer >>
    /\ pc' = "done"
    /\ UNCHANGED << inputs, model, resume_text, job_desc, score, encoded,
                    calls, shared, sessions >>

\* the run is over; nothing but the cached model survives it
EndRun ==
    /\ pc \in {"done", "stopped"}
    /\ pc' = "idle"
    /\ upload_option' = "Upload PDF/DOCX"
    /\ uploaded_resume' = NoFile
    /\ pasted_resume' = Empty
    /\ pasted_job' = Empty
    /\ button' = FALSE
    /\ model' = NoModel
    /\ resume_text' = Empty
    /\ job_desc' = Empty
    /\ score' = 0
    /\ ui' = << >>
    /\ encoded' = << >>
    /\ calls' = << >>
    /\ UNCHANGED << shared, sessions >>

Next ==
    \/ StartRun
    \/ LoadModel
    \/ PasteResume
    \/ NoUpload
    \/ UploadPdf
    \/ UploadDocx
    \/ UploadUnsupported
    \/ Truncate
    \/ ButtonNotPressed
    \/ ButtonBlank
    \/ Calculate
    \/ Render
    \/ EndRun

Spec == Init /\ [][Next]_vars


\* ------------------------------------------- concurrent sessions (SpecLoad) --
\* Each session runs the script in its own thread.  load_model is wrapped by
\* st.cache_resource: a call reads the process-wide cache; on a miss it takes
\* the entry's compute lock, reads the cache again, and only then runs the
\* function body and stores the instance.  The rest of the run reads the
\* handle and nothing else of the shared state.
request == << pc, inputs, locals >>

SessionRun(s) ==
    /\ spc[s] = "idle"
    /\ runs[s] < MaxScriptRuns
    /\ runs' = [runs EXCEPT ![s] = @ + 1]
    /\ spc' = [spc EXCEPT ![s] = "call"]
    /\ handle' = [handle EXCEPT ![s] = NoModel]
    /\ UNCHANGED << request, shared, lock >>

\* the lock-free path of a call of the undecorated function (faulty variant)
CallUncached(s) ==
    /\ spc[s] = "call"
    /\ spc' = [spc EXCEPT ![s] = "compute"]
    /\ UNCHANGED << request, shared, lock, handle, runs >>

CacheRead(s) ==
    /\ spc[s] = "call"
    /\ IF cache # NoModel
       THEN /\ handle' = [handle EXCEPT ![s] = cache]
            /\ spc' = [spc EXCEPT ![s] = "loaded"]
       ELSE /\ spc' = [spc EXCEPT ![s] = "miss"]
            /\ UNCHANGED handle
    /\ UNCHANGED << request, shared, lock, runs >>

AcquireLock(s) ==
    /\ spc[s] = "miss"
    /\ lock = 0
    /\ lock' = s
    /\ spc' = [spc EXCEPT ![s] = "locked"]
    /\ UNCHANGED << request, shared, handle, runs >>

Recheck(s) ==
    /\ spc[s] = "locked"
    /\ IF cache # NoModel
       THEN /\ handle' = [handle EXCEPT ![s] = cache]
            /\ lock' = 0
            /\ spc' = [spc EXCEPT ![s] = "loaded"]
       ELSE /\ spc' = [spc EXCEPT ![s] = "compute"]
            /\ UNCHANGED << handle, lock >>
    /\ UNCHANGED << request, shared, runs >>

\* the body of load_model: SentenceTransformer('all-MiniLM-L6-v2'), stored in
\* the cache and returned
Construct(s) ==
    /\ spc[s] = "compute"
    /\ \E w \in Weights :
          LET inst == [id |-> constructed + 1, weights |-> w]
          IN  /\ cache' = inst
              /\ handle' = [handle EXCEPT ![s] = inst]
    /\ constructed' = constructed + 1
    /\ lock' = IF lock = s THEN 0 ELSE lock
    /\ spc' = [spc EXCEPT ![s] = "loaded"]
    /\ UNCHANGED << request, runs >>

\* the rest of the script run, scoring included, with the session's handle
SessionScore(s) ==
    /\ spc[s] = "loaded"
    /\ spc' = [spc EXCEPT ![s] = "idle"]
    /\ UNCHANGED << request, shared, lock, handle, runs >>

NextLoad ==
    \E s \in Sessions :
        \/ SessionRun(s)
        \/ CacheRead(s)
        \/ AcquireLock(s)
        \/ Recheck(s)
        \/ Construct(s)
        \/ SessionScore(s)

SpecLoad == Init /\ [][NextLoad]_vars


\* ================================================================ claims ==
Shown(msg) == \E i \in DOMAIN ui : ui[i] = msg
Count(msg) == Cardinality({ i \in DOMAIN ui : ui[i] = msg })
IsTier(msg) == msg \in {"Strong", "Average", "Weak"}
TiersShown == SelectSeq(ui, IsTier)
Prompt == "Please provide both"
ScoringError == "Error calculating ATS score"

HasVisible(t) == \E i \in DOMAIN t : t[i].ch \notin Whitespace

IsPrefixOf(p, t) ==
    \/ p = Empty
    \/ /\ Len(p) <= Len(t)
       /\ \A i \in 1..(Len(p) - 1) : p[i] = t[i]
       /\ p[Len(p)].ch = t[Len(p)].ch
       /\ p[Len(p)].n <= t[Len(p)].n

Min(a, b) == IF a < b THEN a ELSE b

Uploaded == upload_option = "Upload PDF/DOCX" /\ uploaded_resume # NoFile
IsPdf == Uploaded /\ uploaded_resume.name \in {"pdf", "PDF"}
IsDocx == Uploaded /\ uploaded_resume.name = "docx"

\* the uploaded file cannot be parsed, or none of its pages or paragraphs
\* has a visible character
ExtractionFails ==
    /\ IsPdf \/ IsDocx
    /\ \/ ~uploaded_resume.parses
       \/ \A i \in DOMAIN uploaded_resume.parts :
              ~HasVisible(uploaded_resume.parts[i])

\* the resume text the request is about, before truncation
ResumeInput ==
    IF upload_option = "Paste Text" THEN pasted_resume
    ELSE IF IsPdf THEN PdfText(uploaded_resume.parts)
    ELSE IF IsDocx THEN DocxText(uploaded_resume.parts)
    ELSE Empty

Ended == pc \in {"done", "stopped"}
Scored == pc \in {"render", "done"} /\ calls # << >>

\* C1: in every run that shows a score exactly one feedback tier is shown,
\* and it is Strong for score >= 75.00, Average for 50.00 <= score < 75.00
\* and Weak for score < 50.00.
C1_TierOfScore ==
    (pc = "done" /\ Shown("Score")) =>
        /\ Len(TiersShown) = 1
        /\ score >= 7500 => TiersShown[1] = "Strong"
        /\ (score >= 5000 /\ score =< 7499) => TiersShown[1] = "Average"
        /\ score =< 4999 => TiersShown[1] = "Weak"

C1_Witness ==
    pc = "done" /\ Shown("Score") /\ score = 7500 /\ TiersShown = << "Strong" >>

\* C2: the value calculate_ats_score returns lies in [0.00, 100.00].
C2_ScoreInRange == Scored => (score >= 0 /\ score =< 10000)

\* C3 as stated: whenever the button was pressed and the resume text or the
\* job description is blank, the pipeline is not invoked, no score or tier is
\* rendered and the prompt to supply both inputs is shown.
C3_PromptWheneverBlank ==
    (Ended /\ button
       /\ (~HasVisible(resume_text) \/ ~HasVisible(Prefix(pasted_job, MAX_CHARS)))) =>
        /\ calls = << >> /\ encoded = << >>
        /\ ~Shown("Score") /\ TiersShown = << >>
        /\ Shown(Prompt)

\* C3 amended: the prompt is shown when the run reaches the button handler,
\* that is unless an extraction error stopped it; a stopped run shows the
\* extraction error and no prompt.  In both cases the pipeline is not
\* invoked and no score or tier is rendered, and every text the pipeline
\* receives has a visible character.
C3_PromptUnlessStopped ==
    /\ (Ended /\ button
          /\ (~HasVisible(resume_text) \/ ~HasVisible(Prefix(pasted_job, MAX_CHARS)))) =>
           /\ calls = << >> /\ encoded = << >>
           /\ ~Shown("Score") /\ TiersShown = << >>
           /\ Shown(Prompt) <=> pc = "done"
    /\ \A i \in DOMAIN calls : HasVisible(calls[i][1]) /\ HasVisible(calls[i][2])
    /\ \A i \in DOMAIN encoded : HasVisible(encoded[i])

C3_Witness ==
    /\ pc = "done" /\ button
    /\ HasVisible(resume_text) /\ pasted_job # Empty /\ ~HasVisible(pasted_job)
    /\ Shown(Prompt) /\ calls = << >>

\* C4: once extraction of the uploaded file has failed the run is stopped
\* with one error on the page: nothing else is rendered and the pipeline
\* is not invoked, whether or not the button was pressed.
C4_ExtractionTerminal ==
    (ExtractionFails /\ pc \notin {"idle", "load_model", "resume"}) =>
        /\ pc = "stopped"
        /\ Len(ui) = 1
        /\ ui[1] \in {"Error reading PDF", "Error reading DOCX",
                      "Could not extract text from the uploaded PDF",
                      "Could not extract text from the uploaded DOCX"}
        /\ uploaded_resume.parses <=>
               ui[1] \in {"Could not extract text from the uploaded PDF",
                          "Could not extract text from the uploaded DOCX"}
        /\ calls = << >> /\ encoded = << >>

C4_Witness ==
    /\ pc = "stopped" /\ button /\ IsDocx
    /\ uploaded_resume.parses /\ Len(uploaded_resume.parts) = 2

\* C5: when the provider fails on a text (or the similarity cannot be
\* computed) calculate_ats_score shows one error and returns 0.0; each text
\* is encoded at most once, the job description not at all when the resume
\* failed; the run goes on to show the score 0.0 with the tier Weak.
ProviderFails ==
    \/ Encode(model, resume_text).kind # "tensor"
    \/ Encode(model, job_desc).kind # "tensor"

C5_FailureDefaultsToZero ==
    (Scored /\ ProviderFails) =>
        /\ Count(ScoringError) = 1
        /\ score = 0
        /\ encoded = IF Encode(model, resume_text).kind = "raised"
                     THEN << resume_text >>
                     ELSE << resume_text, job_desc >>
        /\ pc = "done" =>
               /\ Count("Score") = 1
               /\ TiersShown = << "Weak" >>
               /\ ui[Len(ui)] = Footer

C5_Witness ==
    /\ pc = "done" /\ Shown(ScoringError) /\ score = 0
    /\ encoded = << resume_text >> /\ TiersShown = << "Weak" >>

\* C6: every text handed to the provider is at most MAX_CHARS long and is
\* the prefix of that length of the corresponding input, and the score is
\* the one calculate_ats_score gives for these prefixes (so inputs that
\* agree on their first MAX_CHARS characters get the same arguments and
\* the same score).
C6_OnlyPrefixScored ==
    Scored =>
        /\ \A i \in DOMAIN encoded : TextLen(encoded[i]) =< MAX_CHARS
        /\ calls = << << resume_text, job_desc >> >>
        /\ IsPrefixOf(resume_text, ResumeInput)
        /\ TextLen(resume_text) = Min(TextLen(ResumeInput), MAX_CHARS)
        /\ IsPrefixOf(job_desc, pasted_job)
        /\ TextLen(job_desc) = Min(TextLen(pasted_job), MAX_CHARS)
        /\ Len(encoded) \in {1, 2}
        /\ encoded = SubSeq(calls[1], 1, Len(encoded))
        /\ score = calculate_ats_score(model, Prefix(ResumeInput, MAX_CHARS),
                                        Prefix(pasted_job, MAX_CHARS)).score

C6_Witness ==
    /\ pc = "done" /\ Scored
    /\ TextLen(pasted_resume) > MAX_CHARS /\ TextLen(pasted_job) > MAX_CHARS
    /\ TextLen(encoded[1]) = MAX_CHARS /\ Len(encoded) = 2

C8_IdenticalTexts ==
    (Scored /\ resume_text = job_desc /\ ~ProviderFails) =>
        /\ score = 10000
        /\ pc = "done" => TiersShown = << "Strong" >>

C8_Witness ==
    /\ pc = "done" /\ Scored /\ resume_text = job_desc
    /\ CosSim(Encode(model, resume_text), Encode(model, job_desc)) > 10000000
    /\ score = 10000

\* C9 as stated: a parsed file with visible text yields a non-empty text,
\* the concatenation of the pages for a PDF and the paragraphs with a
\* newline between consecutive paragraphs only for a DOCX.
VisibleUpload ==
    /\ pc = "job" /\ (IsPdf \/ IsDocx) /\ uploaded_resume.parses
    /\ \E i \in DOMAIN uploaded_resume.parts : HasVisible(uploaded_resume.parts[i])

C9_NewlineBetweenOnly ==
    VisibleUpload =>
        /\ resume_text # Empty
        /\ IsPdf => resume_text = PdfText(uploaded_resume.parts)
        /\ IsDocx => resume_text = JoinNL(uploaded_resume.parts)

\* C9 amended: for a DOCX every paragraph, the last one included, is
\* followed by a newline.
C9_NewlineAfterEach ==
    VisibleUpload =>
        /\ resume_text # Empty
        /\ Shown("Resume text extracted successfully")
        /\ IsPdf => resume_text = PdfText(uploaded_resume.parts)
        /\ IsDocx => resume_text =
               Concat(JoinNL(uploaded_resume.parts), << Run("\n", 1) >>)

C9_Witness ==
    /\ VisibleUpload /\ IsDocx /\ Len(uploaded_resume.parts) = 2
    /\ resume_text[Len(resume_text)].ch = "\n"
    /\ HasVisible(uploaded_resume.parts[1]) /\ HasVisible(uploaded_resume.parts[2])

\* C10: the pipeline is invoked in a run exactly when the button was
\* pressed, extraction did not fail and both inputs have a visible
\* character among their first MAX_CHARS characters; then it is invoked
\* once, with the truncated, untrimmed texts, and one score and one tier
\* are rendered; otherwise a run that was not stopped and had the button
\* pressed shows the prompt.
C10_InvokedIff ==
    Ended =>
        /\ calls # << >> <=>
               /\ button
               /\ ~ExtractionFails
               /\ HasVisible(Prefix(ResumeInput, MAX_CHARS))
               /\ HasVisible(Prefix(pasted_job, MAX_CHARS))
        /\ calls # << >> =>
               /\ calls = << << Prefix(ResumeInput, MAX_CHARS),
                                Prefix(pasted_job, MAX_CHARS) >> >>
               /\ Count("Score") = 1
               /\ Len(TiersShown) = 1
               /\ ~Shown(Prompt)
        /\ calls = << >> =>
               /\ ~Shown("Score") /\ TiersShown = << >>
               /\ Shown(Prompt) <=> (button /\ ~ExtractionFails)

C10_Witness ==
    /\ pc = "done" /\ button /\ Shown(Prompt)
    /\ upload_option = "Paste Text"
    /\ HasVisible(pasted_resume) /\ ~HasVisible(resume_text)
    /\ HasVisible(pasted_job)

====
